---- MODULE Spec2Model ----
(***************************************************************************)
(* Deposit path of the shielded pool (process_deposit in                   *)
(* src/shielded_pool_program/src/instructions/deposit.rs).                 *)
(*                                                                         *)
(* The ledger is a set of accounts (address, owner, lamports, data).  One  *)
(* action is one whole call of process_deposit: the handler runs on a      *)
(* working copy of the ledger and the host keeps the copy only when the    *)
(* handler returns Ok.                                                     *)
(*                                                                         *)
(* Two specifications share the state:                                     *)
(*   Spec     - sequences of deposit calls on a fresh initialized pool;    *)
(*   SpecCall - one call, with every shape of account list and payload,    *)
(*              from each of a bounded set of ledger states.               *)
(***************************************************************************)
EXTENDS Integers, Sequences, FiniteSets, TLC

VARIABLES lamports, owner, data, accepted, deposited, vault0, call

vars == <<lamports, owner, data, accepted, deposited, vault0, call>>

(***************************************************************************)
(* Bounds of the model.                                                    *)
(***************************************************************************)
HistoryCapacity == 3      \* N, the capacity of the root-history ring
TreeDepth == 2            \* D, the depth of the commitment tree
PayerLamports == 2        \* the balance each payer starts with
MaxDeposits == 4          \* accepted deposits explored by Spec

(***************************************************************************)
(* Accounts.                                                               *)
(***************************************************************************)
SystemProgram == "system"
ProgramId == "shielded_pool"

PoolStatePda == "pool_state_pda"
VaultPda == "vault_pda"
Forged == "forged"
Payers == {"payer1", "payer2"}

Accounts == Payers \cup {PoolStatePda, VaultPda, Forged}
DataAccounts == {PoolStatePda, Forged}

find_program_address(seed) ==
    CASE seed = "pool_state" -> PoolStatePda
      [] seed = "vault" -> VaultPda

owned_by(own, account, program) == own[account] = program

(***************************************************************************)
(* ShieldedPoolState: the initialized flag, the ring of roots with its     *)
(* write cursor, and the accumulator's leaf count.                         *)
(***************************************************************************)
ZeroedState(init) ==
    [is_initialized |-> init,
     roots |-> [i \in 0 .. HistoryCapacity - 1 |-> 0],
     cursor |-> 0,
     leaf_count |-> 0]

is_initialized(state) == state.is_initialized

add_root(state, root) ==
    [state EXCEPT !.roots[state.cursor] = root,
                  !.cursor = (state.cursor + 1) % HistoryCapacity]

\* The entry written i pushes ago (i = 1 is the newest one).
RootAgo(state, i) ==
    state.roots[(state.cursor + HistoryCapacity * i - i) % HistoryCapacity]

NewestRoot(state) == RootAgo(state, 1)

(***************************************************************************)
(* The accumulator of section 4.2: an append-only hash tree of depth       *)
(* TreeDepth kept as one filled subtree per level.                         *)
(***************************************************************************)
Hash(a, b) == (a * 7 + b * 13 + 5) % 97

RECURSIVE EmptySubtree(_)
EmptySubtree(d) == IF d = 0 THEN 0 ELSE Hash(EmptySubtree(d - 1), EmptySubtree(d - 1))

EmptyAccumulator ==
    [leaf_count |-> 0,
     filled_subtrees |-> [d \in 0 .. TreeDepth - 1 |-> EmptySubtree(d)],
     root |-> EmptySubtree(TreeDepth)]

Bit(n, d) == (n \div (2 ^ d)) % 2

RECURSIVE InsertLevel(_, _, _, _)
InsertLevel(filled, current, index, d) ==
    IF d = TreeDepth THEN [filled_subtrees |-> filled, root |-> current]
    ELSE IF Bit(index, d) = 0
         THEN InsertLevel([filled EXCEPT ![d] = current],
                          Hash(current, EmptySubtree(d)), index, d + 1)
         ELSE InsertLevel(filled, Hash(filled[d], current), index, d + 1)

AccumulatorInsert(acc, leaf) ==
    LET r == InsertLevel(acc.filled_subtrees, leaf, acc.leaf_count, 0)
    IN  [leaf_count |-> acc.leaf_count + 1,
         filled_subtrees |-> r.filled_subtrees,
         root |-> r.root]

RECURSIVE AccumulatorOf(_)
AccumulatorOf(leaves) ==
    IF leaves = <<>> THEN EmptyAccumulator
    ELSE AccumulatorInsert(AccumulatorOf(SubSeq(leaves, 1, Len(leaves) - 1)),
                           leaves[Len(leaves)])

TreeCapacity == 2 ^ TreeDepth

(***************************************************************************)
(* Instruction payload: amount (8 bytes, little-endian), commitment,       *)
(* new_root.                                                               *)
(***************************************************************************)
RECURSIVE from_le_bytes(_)
from_le_bytes(bytes) ==
    IF bytes = <<>> THEN 0
    ELSE bytes[1] + 256 * from_le_bytes(Tail(bytes))

AmountBytes(n) == <<n % 256, (n \div 256) % 256, 0, 0, 0, 0, 0, 0>>

(***************************************************************************)
(* SystemTransfer { from, to, lamports }.invoke()                          *)
(***************************************************************************)
SystemTransfer_Mints(lam, from, to, amount, fromWritable) ==
    IF ~fromWritable THEN [err |-> "PrivilegeEscalation", lamports |-> lam]
    ELSE IF lam[from] < amount THEN [err |-> "InsufficientFunds", lamports |-> lam]
    ELSE [err |-> "Ok", lamports |-> [lam EXCEPT ![to] = lam[to] + amount]]

SystemTransfer_CreditsPayer(lam, from, to, amount, fromWritable) ==
    IF ~fromWritable THEN [err |-> "PrivilegeEscalation", lamports |-> lam]
    ELSE IF lam[from] < amount THEN [err |-> "InsufficientFunds", lamports |-> lam]
    ELSE [err |-> "Ok", lamports |-> lam]

SystemTransfer(lam, from, to, amount, fromWritable) ==
    IF ~fromWritable THEN [err |-> "PrivilegeEscalation", lamports |-> lam]
    ELSE IF lam[from] < amount THEN [err |-> "InsufficientFunds", lamports |-> lam]
    ELSE [err |-> "Ok",
          lamports |-> [lam EXCEPT ![from] = lam[from] - amount,
                                   ![to] = lam[to] + amount]]

(***************************************************************************)
(* process_deposit on a working copy (lam, dat) of the ledger.  The result *)
(* carries the copy as the handler left it and whether the transfer was    *)
(* invoked.                                                                *)
(***************************************************************************)
Return(result, invoked, lam, dat) ==
    [result |-> result, transferInvoked |-> invoked, lamports |-> lam, data |-> dat]

MissingSigner_Unchecked(in) == FALSE

MissingSigner(in) == ~in.payerSigner

BadLength_OnlyShort(in) == in.dataLen < 72

BadLength(in) == in.dataLen # 72

ZeroAmount_Accepted(amount) == FALSE

ZeroAmount(amount) == amount = 0

\* The `?` on the transfer's result.
TransferFailed_Ignored(t) == FALSE

TransferFailed(t) == t.err # "Ok"

StateAddressMismatch(in) == in.state_account # find_program_address("pool_state")

StateOwnerMismatch(own, in) == ~owned_by(own, in.state_account, ProgramId)

VaultAddressMismatch_Unchecked(in) == FALSE

VaultAddressMismatch(in) == in.vault # find_program_address("vault")

VaultOwnerMismatch_Unchecked(own, in) == FALSE

VaultOwnerMismatch(own, in) == ~owned_by(own, in.vault, ProgramId)

Uninitialized_Unchecked(dat, in) == FALSE

Uninitialized(dat, in) == ~is_initialized(dat[in.state_account])

\* What the handler hands to add_root.
StoredRoot_Commitment(in) == in.commitment

StoredRoot(in) == in.new_root

AfterTransfer(lam, own, dat, in) ==
    IF StateAddressMismatch(in)
    THEN Return("InvalidAccountData", TRUE, lam, dat)
    ELSE IF StateOwnerMismatch(own, in)
    THEN Return("InvalidAccountOwner", TRUE, lam, dat)
    ELSE IF VaultAddressMismatch(in)
    THEN Return("InvalidAccountData", TRUE, lam, dat)
    ELSE IF VaultOwnerMismatch(own, in)
    THEN Return("InvalidAccountOwner", TRUE, lam, dat)
    ELSE IF Uninitialized(dat, in)
    THEN Return("UninitializedAccount", TRUE, lam, dat)
    ELSE Return("Ok", TRUE, lam,
                [dat EXCEPT ![in.state_account] = add_root(@, StoredRoot(in))])

process_deposit(lam, own, dat, in) ==
    IF in.nAccounts # 4
    THEN Return("NotEnoughAccountKeys", FALSE, lam, dat)
    ELSE IF MissingSigner(in)
    THEN Return("MissingRequiredSignature", FALSE, lam, dat)
    ELSE IF ~in.stateWritable \/ ~in.vaultWritable
    THEN Return("InvalidAccountData", FALSE, lam, dat)
    ELSE IF BadLength(in)
    THEN Return("InvalidInstructionData", FALSE, lam, dat)
    ELSE LET amount == from_le_bytes(in.amountBytes)
         IN  IF ZeroAmount(amount)
             THEN Return("InvalidInstructionData", FALSE, lam, dat)
             ELSE LET t == SystemTransfer(lam, in.payer, in.vault, amount,
                                          in.payerWritable)
                  IN  IF TransferFailed(t)
                      THEN Return(t.err, TRUE, t.lamports, dat)
                      ELSE AfterTransfer(t.lamports, own, dat, in)

(***************************************************************************)
(* The host keeps the writes of a call that returned Ok and discards the   *)
(* writes of a call that returned an error.                                *)
(***************************************************************************)
HostCommit_KeepsAll(result, before, after) == after

HostCommit(result, before, after) == IF result = "Ok" THEN after ELSE before

(***************************************************************************)
(* Inputs.                                                                 *)
(***************************************************************************)
Commitments == {11, 22}

\* A root no insertion produces (Hash stays below 97).
ForgedRoots == {1000}

Commits(acc) == [i \in 1 .. Len(acc) |-> acc[i].commitment]

\* The root an honest client computes off-chain for the next commitment.
HonestRoot(acc, commitment) ==
    AccumulatorOf(Append(Commits(acc), commitment)).root

RootChoices(c) == {HonestRoot(accepted, c)} \cup ForgedRoots

NoInput == [nAccounts |-> 0]
NoSnapshot == [lamports |-> <<>>, data |-> <<>>, owner |-> <<>>]

Input(n, p, s, v, ps, pw, sw, vw, len, amt, c, r) ==
    [nAccounts |-> n, payer |-> p, state_account |-> s, vault |-> v,
     payerSigner |-> ps, payerWritable |-> pw, stateWritable |-> sw,
     vaultWritable |-> vw, dataLen |-> len, amountBytes |-> AmountBytes(amt),
     commitment |-> c, new_root |-> r]

(***************************************************************************)
(* One call of process_deposit.  `record` says whether the call's input is *)
(* kept in `call`.                                                         *)
(***************************************************************************)
Invoke(in, record) ==
    LET r == process_deposit(lamports, owner, data, in)
        ok == r.result = "Ok"
    IN  /\ lamports' = HostCommit(r.result, lamports, r.lamports)
        /\ data' = HostCommit(r.result, data, r.data)
        /\ owner' = owner
        /\ accepted' = IF ok
                       THEN Append(accepted, [commitment |-> in.commitment,
                                              root |-> in.new_root])
                       ELSE accepted
        /\ deposited' = IF ok THEN deposited + from_le_bytes(in.amountBytes)
                        ELSE deposited
        /\ vault0' = vault0
        /\ call' = [in |-> IF record THEN in ELSE NoInput,
                    result |-> r.result,
                    transferInvoked |-> r.transferInvoked,
                    touched |-> r.lamports # lamports \/ r.data # data,
                    pre |-> IF record
                            THEN [lamports |-> lamports, data |-> data,
                                  owner |-> owner]
                            ELSE NoSnapshot]

NoCall(lam, dat) ==
    [in |-> NoInput, result |-> "None", transferInvoked |-> FALSE,
     touched |-> FALSE,
     pre |-> [lamports |-> lam, data |-> dat, owner |-> owner]]

\* Spec: a fresh pool as initialization leaves it.
FreshLamports ==
    [a \in Accounts |-> IF a \in Payers THEN PayerLamports ELSE 1]

FreshOwner ==
    [a \in Accounts |-> IF a \in {PoolStatePda, VaultPda} THEN ProgramId
                        ELSE SystemProgram]

FreshData ==
    [a \in DataAccounts |-> ZeroedState(a = PoolStatePda)]

Init ==
    /\ lamports = FreshLamports
    /\ owner = FreshOwner
    /\ data = FreshData
    /\ accepted = <<>>
    /\ deposited = 0
    /\ vault0 = lamports[VaultPda]
    /\ call = NoCall(lamports, data)

\* Well-formed account lists and payloads; the payer, the state account, the
\* amount, the commitment and the root vary.
Deposit ==
    /\ Len(accepted) < MaxDeposits
    /\ \E p \in Payers, s \in {PoolStatePda, Forged}, amt \in 0 .. 2,
          c \in Commitments :
          \E r \in RootChoices(c) :
             Invoke(Input(4, p, s, VaultPda, TRUE, TRUE, TRUE, TRUE, 72, amt, c, r),
                    FALSE)

Next == Deposit

Spec == Init /\ [][Next]_vars

\* SpecCall: the ledger states a single call is made from.  The PDAs and the
\* forged account may or may not have been assigned to the program, a pool
\* state the program owns may or may not be initialized, and an initialized
\* pool may already have accepted one deposit.  A forged account the program
\* owns carries initialized state, the case most favourable to a forger.
FirstDeposit == [commitment |-> 11, root |-> HonestRoot(<<>>, 11)]

CallInit ==
    /\ owner \in [Accounts -> {SystemProgram, ProgramId}]
    /\ \A p \in Payers : owner[p] = SystemProgram
    /\ \E pi \in BOOLEAN, k \in 0 .. 1 :
          /\ pi => owner[PoolStatePda] = ProgramId
          /\ k = 1 => pi /\ owner[VaultPda] = ProgramId
          /\ data = [a \in DataAccounts |->
                        IF a = PoolStatePda
                        THEN IF k = 0 THEN ZeroedState(pi)
                             ELSE add_root(ZeroedState(pi), FirstDeposit.root)
                        ELSE ZeroedState(owner[Forged] = ProgramId)]
          /\ accepted = IF k = 0 THEN <<>> ELSE <<FirstDeposit>>
          /\ deposited = k
          /\ lamports = [a \in Accounts |->
                            CASE a = "payer1" -> PayerLamports - k
                              [] a = "payer2" -> 1
                              [] a = VaultPda -> 1 + k
                              [] OTHER -> 1]
    /\ vault0 = 1
    /\ call = NoCall(lamports, data)

\* Every shape of account list and payload.
Call ==
    /\ call.result = "None"
    /\ \E n \in {3, 4, 5}, p \in Payers, s \in {PoolStatePda, Forged},
          v \in {VaultPda, Forged}, ps \in BOOLEAN, pw \in BOOLEAN,
          sw \in BOOLEAN, vw \in BOOLEAN, len \in {71, 72, 73}, amt \in 0 .. 2,
          c \in Commitments :
          \E r \in RootChoices(c) :
             Invoke(Input(n, p, s, v, ps, pw, sw, vw, len, amt, c, r), TRUE)

CallNext == Call

SpecCall == CallInit /\ [][CallNext]_vars

\* SpecUninit: sequences of deposit calls on a pool state the program owns
\* but has not initialized yet.
UninitInit ==
    /\ owner \in [Accounts -> {SystemProgram, ProgramId}]
    /\ \A p \in Payers : owner[p] = SystemProgram
    /\ owner[PoolStatePda] = ProgramId
    /\ lamports = FreshLamports
    /\ data = [a \in DataAccounts |->
                 ZeroedState(a = Forged /\ owner[Forged] = ProgramId)]
    /\ accepted = <<>>
    /\ deposited = 0
    /\ vault0 = lamports[VaultPda]
    /\ call = NoCall(lamports, data)

DepositUninit ==
    /\ Len(accepted) < MaxDeposits
    /\ \E p \in Payers, s \in {PoolStatePda, Forged}, v \in {VaultPda, Forged},
          ps \in BOOLEAN, amt \in 0 .. 2, c \in Commitments :
          \E r \in RootChoices(c) :
             Invoke(Input(4, p, s, v, ps, TRUE, TRUE, TRUE, 72, amt, c, r), TRUE)

UninitNext == DepositUninit

SpecUninit == UninitInit /\ [][UninitNext]_vars

(***************************************************************************)
(* Properties.                                                             *)
(***************************************************************************)
Pool == data[PoolStatePda]

Called == call.result # "None"
Succeeded == call.result = "Ok"
Failed == Called /\ ~Succeeded

Amount == from_le_bytes(call.in.amountBytes)

Unchanged == lamports = call.pre.lamports /\ data = call.pre.data

\* Preconditions 1 to 5 of the handler, and the transfer going through.
ShapeOk ==
    /\ call.in.nAccounts = 4
    /\ call.in.payerSigner
    /\ call.in.stateWritable /\ call.in.vaultWritable
    /\ call.in.dataLen = 72

TransferPasses ==
    /\ call.in.payerWritable
    /\ call.pre.lamports[call.in.payer] >= Amount

StateAddressOk == call.in.state_account = PoolStatePda
VaultAddressOk == call.in.vault = VaultPda
StateOwnerOk == owner[call.in.state_account] = ProgramId
VaultOwnerOk == owner[call.in.vault] = ProgramId

\* C1: on an initialized pool the newest entry of the root history is the
\* root obtained by inserting exactly the accepted commitments, in acceptance
\* order, into the accumulator.
C1_NewestRootIsAccumulatorRoot ==
    accepted # <<>> => NewestRoot(Pool) = AccumulatorOf(Commits(accepted)).root

C3_TransferOnlyAfterAllPreconditions ==
    call.transferInvoked =>
        /\ ShapeOk
        /\ Amount # 0
        /\ StateAddressOk /\ StateOwnerOk
        /\ VaultAddressOk /\ VaultOwnerOk
        /\ call.pre.data[call.in.state_account].is_initialized

\* C4: a deposit that succeeds with amount A > 0 raises the vault balance by
\* A, raises the leaf count by one and adds exactly one entry to the root
\* history.
C4_SuccessfulDepositEffects ==
    Succeeded =>
        LET before == call.pre.data[PoolStatePda]
        IN  /\ Amount > 0
            /\ lamports[VaultPda] = call.pre.lamports[VaultPda] + Amount
            /\ Pool.leaf_count = before.leaf_count + 1
            /\ Pool.cursor = (before.cursor + 1) % HistoryCapacity
            /\ \A i \in 0 .. HistoryCapacity - 1 :
                  i # before.cursor => Pool.roots[i] = before.roots[i]

\* C5: a deposit whose payload encodes amount 0 never succeeds, whatever the
\* accounts, the commitment and the root are; it is rejected before the
\* transfer is invoked, nothing changes, and when the account count, signer,
\* writability and length checks pass the error is InvalidInstructionData.
C5_ZeroAmountRejected ==
    (Called /\ Amount = 0) =>
        /\ ~Succeeded
        /\ ~call.transferInvoked
        /\ Unchanged
        /\ ShapeOk => call.result = "InvalidInstructionData"

\* A zero-amount deposit that is otherwise acceptable, on an initialized pool.
C5_Witness ==
    /\ Called /\ Amount = 0
    /\ ShapeOk /\ call.in.payerWritable
    /\ StateAddressOk /\ StateOwnerOk /\ VaultAddressOk /\ VaultOwnerOk
    /\ Pool.is_initialized
    /\ call.result = "InvalidInstructionData"

\* C6: after K successful deposits on a fresh initialized pool with history
\* capacity N the history holds the last min(K, N) roots produced, newest
\* first (the most recent root is always there), and nothing else: while
\* K < N the other slots are still empty, and past N the oldest root is the
\* one evicted.
C6_HistoryHoldsLastRoots ==
    LET K == Len(accepted)
    IN  /\ \A i \in 1 .. HistoryCapacity :
              RootAgo(Pool, i) = IF i <= K THEN accepted[K - i + 1].root ELSE 0
        /\ Pool.cursor = K % HistoryCapacity

\* N + 1 deposits: the root of deposit 1 is gone and the root of deposit 2 is
\* the oldest retained entry.
C6_Witness ==
    /\ Len(accepted) = HistoryCapacity + 1
    /\ \A i \in 1 .. HistoryCapacity : RootAgo(Pool, i) # accepted[1].root
    /\ RootAgo(Pool, HistoryCapacity) = accepted[2].root
    /\ accepted[2].root # accepted[3].root

\* C7: the vault balance is its initial balance plus the amounts of exactly
\* the deposits that succeeded; failed deposits contribute nothing and no
\* call lowers it.
C7_VaultIsSumOfAccepted ==
    /\ lamports[VaultPda] = vault0 + deposited
    /\ lamports[VaultPda] >= vault0

\* A failed call after deposits of both amounts were accepted.
C7_Witness ==
    /\ deposited >= 3
    /\ Len(accepted) = 2
    /\ call.result = "InsufficientFunds"

\* C8: a deposit whose pool_state or vault address is not the program-derived
\* one never succeeds, whatever the owner and writability are, and changes
\* nothing; when every earlier check and the transfer pass the error is
\* InvalidAccountData.
C8_AddressMismatchRejected ==
    (Called /\ (~StateAddressOk \/ ~VaultAddressOk)) =>
        /\ ~Succeeded
        /\ Unchanged
        /\ (ShapeOk /\ Amount # 0 /\ TransferPasses
              /\ (~StateAddressOk \/ StateOwnerOk))
           => call.result = "InvalidAccountData"

\* A forged vault the program owns, next to the real initialized pool state:
\* only the address check stands between the call and success.
C8_Witness ==
    /\ call.result = "InvalidAccountData"
    /\ call.transferInvoked /\ call.touched
    /\ StateAddressOk /\ StateOwnerOk /\ Pool.is_initialized
    /\ ~VaultAddressOk /\ VaultOwnerOk

\* C9 as stated: a deposit in which pool_state or vault has the program-derived
\* address but is not owned by the program is reported as InvalidAccountOwner
\* and changes nothing.
C9_OwnerMismatchAlwaysInvalidOwner ==
    (Called /\ ((StateAddressOk /\ ~StateOwnerOk) \/ (VaultAddressOk /\ ~VaultOwnerOk)))
        => call.result = "InvalidAccountOwner" /\ Unchanged

\* C9 amended: such a deposit never succeeds and changes nothing; it is
\* reported as InvalidAccountOwner when every earlier check and the transfer
\* pass.
C9_OwnerMismatchRejected ==
    (Called /\ ((StateAddressOk /\ ~StateOwnerOk) \/ (VaultAddressOk /\ ~VaultOwnerOk)))
        => /\ ~Succeeded
           /\ Unchanged
           /\ (ShapeOk /\ Amount # 0 /\ TransferPasses /\ StateAddressOk
                 /\ (StateOwnerOk => VaultAddressOk))
              => call.result = "InvalidAccountOwner"

\* The real, initialized pool state with a vault PDA the program does not own.
C9_Witness ==
    /\ call.result = "InvalidAccountOwner"
    /\ call.touched
    /\ StateAddressOk /\ StateOwnerOk /\ Pool.is_initialized
    /\ VaultAddressOk /\ ~VaultOwnerOk

\* C10: the tree of depth D never fills up: the deposit that would bring the
\* number of inserted commitments to 2^D is rejected, so no reachable state
\* has 2^D accepted commitments (or a leaf count of 2^D).
C10_TreeNeverExhausted ==
    /\ Len(accepted) < TreeCapacity
    /\ Pool.leaf_count < TreeCapacity

\* C11 as stated: with exactly 4 accounts a payload whose length is not 72
\* fails with InvalidInstructionData whether or not the payer signed and
\* whether or not pool_state and vault are writable.
C11_BadLengthBeforeAccountChecks ==
    (Called /\ call.in.nAccounts = 4 /\ call.in.dataLen # 72)
        => call.result = "InvalidInstructionData"

\* C11 amended: such a call never succeeds and never reaches the transfer;
\* when the payer signed and pool_state and vault are writable it fails with
\* InvalidInstructionData, whatever the amount, the addresses, the owners and
\* the pool state are.
C11_BadLengthRejected ==
    (Called /\ call.in.nAccounts = 4 /\ call.in.dataLen # 72)
        => /\ ~Succeeded
           /\ ~call.transferInvoked
           /\ Unchanged
           /\ (call.in.payerSigner /\ call.in.stateWritable /\ call.in.vaultWritable)
              => call.result = "InvalidInstructionData"

\* A 71-byte payload with a forged state account and a nonzero amount field.
C11_Witness ==
    /\ call.result = "InvalidInstructionData"
    /\ call.in.nAccounts = 4 /\ call.in.dataLen = 71
    /\ call.in.state_account = Forged
    /\ Amount # 0

\* C12: a call whose account list does not have exactly 4 accounts is
\* rejected as InvalidInstructionData, with no transfer and no root appended.
C12_WrongAccountCountIsInvalidInstructionData ==
    (Called /\ call.in.nAccounts # 4)
        => /\ call.result = "InvalidInstructionData"
           /\ ~call.transferInvoked
           /\ Unchanged

\* C13: with 4 accounts a payer that did not sign fails the call with
\* MissingRequiredSignature, whatever the payload and the other accounts are;
\* the transfer is not invoked and no root is appended.
C13_NonSignerRejected ==
    (Called /\ call.in.nAccounts = 4 /\ ~call.in.payerSigner)
        => /\ call.result = "MissingRequiredSignature"
           /\ ~call.transferInvoked
           /\ Unchanged

\* A call that would have succeeded had the payer signed.
C13_Witness ==
    /\ call.result = "MissingRequiredSignature"
    /\ call.in.nAccounts = 4 /\ ~call.in.payerSigner
    /\ call.in.stateWritable /\ call.in.vaultWritable /\ call.in.payerWritable
    /\ call.in.dataLen = 72 /\ Amount = 1
    /\ call.in.state_account = PoolStatePda /\ call.in.vault = VaultPda
    /\ owner[PoolStatePda] = ProgramId /\ owner[VaultPda] = ProgramId
    /\ Pool.is_initialized

\* C14 as stated: a deposit against the program-owned pool state PDA whose
\* is_initialized flag is false is rejected with UninitializedAccount, and
\* nothing changes.
C14_UninitializedAlwaysReported ==
    (Called /\ StateAddressOk /\ StateOwnerOk
       /\ ~call.pre.data[PoolStatePda].is_initialized)
        => call.result = "UninitializedAccount" /\ Unchanged

\* C14 amended: no sequence of deposits appends a root to the uninitialized
\* pool state or moves a balance; a deposit against it never succeeds, and it
\* is reported as UninitializedAccount when every earlier check and the
\* transfer pass.
C14_UninitializedRejected ==
    ~Pool.is_initialized =>
        /\ Pool = ZeroedState(FALSE)
        /\ lamports = FreshLamports
        /\ Called => ~Succeeded
        /\ (Called /\ ShapeOk /\ Amount # 0 /\ TransferPasses
              /\ StateAddressOk /\ StateOwnerOk /\ VaultAddressOk /\ VaultOwnerOk)
           => call.result = "UninitializedAccount"

\* The call passed every other check, the transfer included.
C14_Witness ==
    /\ ~Pool.is_initialized
    /\ call.result = "UninitializedAccount"
    /\ call.touched
    /\ StateAddressOk /\ StateOwnerOk /\ VaultAddressOk /\ VaultOwnerOk

C16_NotWritableIsAuthorizationFailure ==
    (Called /\ call.in.nAccounts = 4 /\ call.in.payerSigner
       /\ (~call.in.stateWritable \/ ~call.in.vaultWritable))
        => /\ call.result \in {"MissingRequiredSignature", "InvalidAccountOwner"}
           /\ ~call.transferInvoked
           /\ Unchanged

\* A well-formed deposit against the real, initialized pool: 4 accounts, a
\* signing writable payer, the writable program-owned PDAs, 72 bytes,
\* amount >= 1.
WellFormed ==
    /\ Called /\ ShapeOk /\ call.in.payerWritable
    /\ StateAddressOk /\ StateOwnerOk /\ VaultAddressOk /\ VaultOwnerOk
    /\ call.pre.data[PoolStatePda].is_initialized
    /\ Amount >= 1

\* C17 as stated: for every root R, a deposit with amount >= 1 by a signing
\* payer holding at least 1 lamport succeeds and makes R the newest root.
C17_AnyRootForOneLamport ==
    (WellFormed /\ call.pre.lamports[call.in.payer] >= 1)
        => Succeeded /\ NewestRoot(Pool) = call.in.new_root

\* C17 amended: the payer has to hold at least the amount; then the deposit
\* succeeds, and every successful deposit stores payload bytes 40..71 as the
\* newest root, whatever the commitment is.
C17_AnyRootAccepted ==
    /\ (WellFormed /\ call.pre.lamports[call.in.payer] >= Amount) => Succeeded
    /\ Succeeded => NewestRoot(Pool) = call.in.new_root

\* A root no insertion produces, stored for 1 lamport.
C17_Witness ==
    /\ Succeeded
    /\ call.in.new_root \in ForgedRoots
    /\ Amount = 1
    /\ NewestRoot(Pool) \in ForgedRoots

\* C18: deposits of several payers against the same pool state and vault, in
\* any interleaving and with failed calls in between, leave the state that
\* running the successful ones one after another in commit order leaves: the
\* vault holds the sum of their amounts, the payers have paid exactly that
\* sum, and the history holds their roots in commit order, none lost and
\* none duplicated, within the last N.
C18_InterleavedDepositsSerialize ==
    LET K == Len(accepted)
        kept == IF K < HistoryCapacity THEN K ELSE HistoryCapacity
    IN  /\ lamports[VaultPda] - vault0 = deposited
        /\ lamports["payer1"] + lamports["payer2"] = 2 * PayerLamports - deposited
        /\ \A i \in 1 .. kept : RootAgo(Pool, i) = accepted[K - i + 1].root
        /\ Pool.cursor = K % HistoryCapacity
        /\ \A a \in Accounts \ (Payers \cup {VaultPda}) :
              lamports[a] = FreshLamports[a]

\* Both payers have deposited, and the last call, made after their deposits,
\* failed after its transfer had been invoked.
C18_Witness ==
    /\ Len(accepted) >= 3
    /\ lamports["payer1"] < PayerLamports
    /\ lamports["payer2"] < PayerLamports
    /\ call.result = "InvalidAccountData"
    /\ call.touched

\* C19: the commitment has no influence on the outcome: the same call made
\* from the same state with any other commitment returns the same result and
\* leaves the same balances and the same account data.
C19_CommitmentHasNoInfluence ==
    Called =>
        \A c \in Commitments :
            LET r == process_deposit(call.pre.lamports, call.pre.owner, call.pre.data,
                                     [call.in EXCEPT !.commitment = c])
            IN  /\ r.result = call.result
                /\ HostCommit(r.result, call.pre.lamports, r.lamports) = lamports
                /\ HostCommit(r.result, call.pre.data, r.data) = data

\* A successful deposit of commitment 22 carrying a root that is not the
\* root of inserting it.
C19_Witness ==
    /\ Succeeded
    /\ call.in.commitment = 22
    /\ call.in.new_root \in ForgedRoots
    /\ NewestRoot(Pool) = call.in.new_root

\* C20: a call conserves native value and touches nothing else: the payer's
\* and the vault's balances add up to what they did before, a success moves
\* exactly the amount from the payer to the vault, a failure moves nothing,
\* no other balance changes, and a success leaves every is_initialized flag,
\* every owner and the set of accounts as they were.
C20_ValueConserved ==
    Called =>
        LET p == call.in.payer
            v == call.in.vault
        IN  /\ lamports[p] + lamports[v] = call.pre.lamports[p] + call.pre.lamports[v]
            /\ \A a \in Accounts \ {p, v} : lamports[a] = call.pre.lamports[a]
            /\ ~Succeeded => lamports = call.pre.lamports
            /\ Succeeded =>
                  /\ lamports[p] = call.pre.lamports[p] - Amount
                  /\ lamports[v] = call.pre.lamports[v] + Amount
                  /\ \A a \in DataAccounts :
                        data[a].is_initialized = call.pre.data[a].is_initialized
                  /\ data[Forged] = call.pre.data[Forged]
                  /\ owner = call.pre.owner
                  /\ DOMAIN lamports = Accounts /\ DOMAIN data = DataAccounts

\* A successful deposit of 2 lamports.
C20_Witness ==
    /\ Succeeded
    /\ Amount = 2
    /\ lamports[VaultPda] = call.pre.lamports[VaultPda] + 2

====
